---- MODULE Spec2Model ----
(***************************************************************************)
(* A model of rcpeter/message_reader: the message-text recovery engine of  *)
(* message_exporter.py (extract_complete_text, clean_extracted_text and    *)
(* the export loop of export_messages), and the chunk splitter of          *)
(* conversation_batcher.py (split_conversation_file).                      *)
(*                                                                         *)
(* A Python str is a sequence of one-character strings, so that            *)
(* <<"N", "S">> is the str "NS".  Python's None is the value None below.   *)
(***************************************************************************)
EXTENDS Integers, Sequences, FiniteSets, TLC

VARIABLES
    messages,             \* export_messages: the rows cursor.fetchall() returned
    idx,                  \* export_messages: how many rows the for loop has processed
    clean_messages,       \* export_messages: the list of clean message objects
    pc,                   \* the position of the running function
    attributed_body_str,  \* extract_complete_text: its argument
    extracted,            \* extract_complete_text: its return value
    text,                 \* clean_extracted_text: its argument
    cleaned,              \* clean_extracted_text: its return value
    recleaned,            \* clean_extracted_text applied to its own return value
    lines,                \* split_conversation_file: what f.readlines() returned
    max_tokens_per_chunk, \* split_conversation_file: its parameter
    line_idx,             \* split_conversation_file: lines the first loop has read
    message_lines,        \* split_conversation_file: the (i, line) pairs of the messages
    header_lines,         \* split_conversation_file: every other line, stripped
    msg_idx,              \* split_conversation_file: messages the second loop has placed
    chunks,               \* split_conversation_file: the chunks closed so far
    current_chunk,        \* split_conversation_file: the lines of the open chunk
    current_tokens        \* split_conversation_file: token estimate of the open chunk

\* The variables of message_exporter.py, pc aside.
exporter_vars == <<messages, idx, clean_messages, attributed_body_str, extracted,
                   text, cleaned, recleaned>>

\* The variables of conversation_batcher.py.
batcher_vars == <<lines, max_tokens_per_chunk, line_idx, message_lines, header_lines,
                  msg_idx, chunks, current_chunk, current_tokens>>

vars == <<messages, idx, clean_messages, pc, attributed_body_str, extracted,
          text, cleaned, recleaned, lines, max_tokens_per_chunk, line_idx,
          message_lines, header_lines, msg_idx, chunks, current_chunk, current_tokens>>

(***************************************************************************)
(* Values                                                                  *)
(***************************************************************************)

\* Python's None. No str is equal to it: a str holds one-character strings only.
None == <<"None">>

\* A function that has not returned yet.
Unset == <<"Unset">>

\* The characters of a str literal, written out.
S_NS == <<"N", "S">>
S_NSString == <<"N", "S", "S", "t", "r", "i", "n", "g">>
S_class == <<"c", "l", "a", "s", "s">>
S_dollar == <<"$">>
S_null == <<"n", "u", "l", "l">>
S_streamtyped == <<"s", "t", "r", "e", "a", "m", "t", "y", "p", "e", "d">>
S_utableData == <<"u", "t", "a", "b", "l", "e", "D", "a", "t", "a">>
S_classname == <<"'", "(", ")", "*", "Z", "$", "c", "l", "a", "s", "s", "n", "a", "m", "e",
                 "X", "$", "c", "l", "a", "s", "s", "e", "s">>
S_dashdot == <<"'", "-", ".", "/", "4", ":", ">", "?">>

(***************************************************************************)
(* Character classes                                                       *)
(***************************************************************************)

LowerSeq == <<"a", "b", "c", "d", "e", "f", "g", "h", "i", "j", "k", "l", "m",
              "n", "o", "p", "q", "r", "s", "t", "u", "v", "w", "x", "y", "z">>
UpperSeq == <<"A", "B", "C", "D", "E", "F", "G", "H", "I", "J", "K", "L", "M",
              "N", "O", "P", "Q", "R", "S", "T", "U", "V", "W", "X", "Y", "Z">>
Range(f) == {f[k] : k \in DOMAIN f}
LowerChars == Range(LowerSeq)
UpperChars == Range(UpperSeq)
DigitChars == {"0", "1", "2", "3", "4", "5", "6", "7", "8", "9"}
HexChars == DigitChars \cup {"a", "b", "c", "d", "e", "f"}
\* The whitespace of the model: str.isspace() holds of these characters, \s
\* matches them and str.strip() removes them. (Python's other whitespace,
\* \v, \f and \x1c to \x1f, is treated by all three in the same way.)
SpaceChars == {" ", "\t", "\n", "\r"}
\* The characters c of the model with ord(c) < 32.
ControlChars == {"\t", "\n", "\r"}
\* The punctuation of the character class of the three patterns. A TLA+ string
\* cannot hold the grave accent, which is named "GRAVE" here.
PunctChars == {".", ",", "!", "?", "@", "#", "$", "%", "^", "&", "*", "(", ")", "_", "+",
               "-", "=", "[", "]", "{", "}", "|", ";", ":", "\"", "'", "<", ">", "/", "~", "GRAVE"}

IsAlpha(c) == c \in LowerChars \cup UpperChars
IsSpace(c) == c \in SpaceChars
IsHex(c) == c \in HexChars
IsAlphaSpace(c) == IsAlpha(c) \/ IsSpace(c)
\* The class of the patterns of extract_complete_text: letters, digits, \s and
\* the punctuation listed in its brackets.
IsPrintable(c) == IsAlpha(c) \/ c \in DigitChars \/ IsSpace(c) \/ c \in PunctChars
\* . (any character but a line break)
IsDot(c) == c # "\n"
\* [^']
IsNotQuote(c) == c # "'"
\* [+#]
IsMark(c) == c \in {"+", "#"}

(***************************************************************************)
(* str methods                                                             *)
(***************************************************************************)

\* s[pos:].startswith(lit), pos counted from 1
StartsWithAt(s, pos, lit) ==
    /\ pos + Len(lit) - 1 <= Len(s)
    /\ \A k \in 1..Len(lit) : s[pos + k - 1] = lit[k]

StartsWith(s, lit) == StartsWithAt(s, 1, lit)

\* lit in s
Contains(s, lit) == \E pos \in 1..Len(s) : StartsWithAt(s, pos, lit)

\* c.lower()
LowerChar(c) ==
    IF c \in UpperChars
    THEN LowerSeq[CHOOSE k \in 1..Len(UpperSeq) : UpperSeq[k] = c]
    ELSE c

\* s.lower()
Lower(s) == [k \in 1..Len(s) |-> LowerChar(s[k])]

\* s.isalpha(): every character is a letter and there is at least one
IsAlphaStr(s) == Len(s) > 0 /\ \A k \in 1..Len(s) : IsAlpha(s[k])

\* Whether c is of the character class named cls.
InClass(cls, c) ==
    CASE cls = "printable" -> IsPrintable(c)
      [] cls = "alpha" -> IsAlpha(c)
      [] cls = "space" -> IsSpace(c)
      [] cls = "alphaspace" -> IsAlphaSpace(c)
      [] cls = "hex" -> IsHex(c)
      [] cls = "notquote" -> IsNotQuote(c)

\* A greedy repetition of the class cls from pos on: the first position at or
\* after pos where the run of its characters ends, Len(s) + 1 at the end of s.
RECURSIVE RunEnd(_, _, _)
RunEnd(s, pos, cls) ==
    IF pos > Len(s) \/ ~InClass(cls, s[pos]) THEN pos ELSE RunEnd(s, pos + 1, cls)

\* s.strip()
Strip(s) ==
    IF \A k \in 1..Len(s) : IsSpace(s[k])
    THEN <<>>
    ELSE LET first == CHOOSE a \in 1..Len(s) :
                          ~IsSpace(s[a]) /\ \A k \in 1..(a - 1) : IsSpace(s[k])
             last == CHOOSE b \in 1..Len(s) :
                         ~IsSpace(s[b]) /\ \A k \in (b + 1)..Len(s) : IsSpace(s[k])
         IN  SubSeq(s, first, last)

(***************************************************************************)
(* extract_complete_text                                                   *)
(***************************************************************************)

\* The repetition counts of the three patterns.
MinAfterMarker == 8
MinPrintableRun == 10
MinWord == 4
MinWordsTail == 4
\* len(match) > 7
MaxNoiseLen == 7
\* len(patterns)
NumPatterns == 3

\* What one attempt of the regex engine at one position gives: whether the
\* pattern matches there, the text of its group, and where the match ends.
NoMatch == [ok |-> FALSE, group |-> <<>>, end |-> 0]

\* The lazy .*? of the first pattern, which has skipped the characters up to j:
\* the group starts at j when at least 8 characters of the class are there, and
\* otherwise .*? takes one more character, which must not be a line break.
\* 0: the group starts nowhere.
RECURSIVE LazyStart(_, _)
LazyStart(s, j) ==
    IF j > Len(s)
    THEN 0
    ELSE IF RunEnd(s, j, "printable") - j >= MinAfterMarker
         THEN j
         ELSE IF IsDot(s[j]) THEN LazyStart(s, j + 1) ELSE 0

\* NSString.*?([...]{8,}) tried at pos; the greedy group takes the whole run.
MatchMarker(s, pos) ==
    IF StartsWithAt(s, pos, S_NSString)
    THEN LET j == LazyStart(s, pos + Len(S_NSString))
             e == RunEnd(s, j, "printable")
         IN  IF j # 0
             THEN [ok |-> TRUE, group |-> SubSeq(s, j, e - 1), end |-> e]
             ELSE NoMatch
    ELSE NoMatch

\* ([...]{10,}) tried at pos.
MatchPrintable(s, pos) ==
    LET e == RunEnd(s, pos, "printable")
    IN  IF e - pos >= MinPrintableRun
        THEN [ok |-> TRUE, group |-> SubSeq(s, pos, e - 1), end |-> e]
        ELSE NoMatch

\* ([A-Za-z]{4,}\s+[A-Za-z\s]{4,}) tried at pos: letters, then whitespace, then
\* letters and whitespace. Each part is greedy and gives characters back when the
\* next part would fail: the letters cannot (what follows them must be
\* whitespace), the whitespace can, down to one character.
MatchWords(s, pos) ==
    LET w == RunEnd(s, pos, "alpha")
        t == RunEnd(s, w, "space")
        e == RunEnd(s, w, "alphaspace")
    IN  IF /\ w - pos >= MinWord
           /\ t - w >= 1
           /\ \E b \in 1..(t - w) : e - (w + b) >= MinWordsTail
        THEN [ok |-> TRUE, group |-> SubSeq(s, pos, e - 1), end |-> e]
        ELSE NoMatch

\* patterns[p - 1] tried at pos
MatchAt(p, s, pos) ==
    CASE p = 1 -> MatchMarker(s, pos)
      [] p = 2 -> MatchPrintable(s, pos)
      [] p = 3 -> MatchWords(s, pos)

\* re.findall(patterns[p - 1], s), scanning from pos: the groups of the leftmost
\* matches that do not overlap, in order of appearance.
RECURSIVE FindAllFrom(_, _, _)
FindAllFrom(p, s, pos) ==
    IF pos > Len(s)
    THEN <<>>
    ELSE LET m == MatchAt(p, s, pos)
         IN  IF m.ok
             THEN <<m.group>> \o FindAllFrom(p, s, m.end)
             ELSE FindAllFrom(p, s, pos + 1)

FindAll(p, s) == FindAllFrom(p, s, 1)

\* The condition under which a match is returned ("Filter out binary data").
Accepted(match) ==
    /\ Len(match) > MaxNoiseLen
    /\ ~(\A k \in 1..Len(match) : match[k] \in ControlChars)
    /\ ~StartsWith(match, S_NS)
    /\ ~StartsWith(match, S_class)
    /\ ~StartsWith(match, S_dollar)
    /\ ~StartsWith(match, S_null)
    /\ ~Contains(Lower(match), S_streamtyped)
    /\ ~Contains(match, S_utableData)

\* for match in matches: the first accepted match, stripped, or None
RECURSIVE FirstAccepted(_, _)
FirstAccepted(matches, k) ==
    IF k > Len(matches)
    THEN None
    ELSE IF Accepted(matches[k])
         THEN Strip(matches[k])
         ELSE FirstAccepted(matches, k + 1)

\* A faulty loop over the patterns, which C9 must tell from the code's: it tries
\* the loosest pattern first.
RECURSIVE TryPatternsLoosestFirst(_, _)
TryPatternsLoosestFirst(s, p) ==
    IF p > NumPatterns
    THEN None
    ELSE LET r == FirstAccepted(FindAll(NumPatterns + 1 - p, s), 1)
         IN  IF r # None THEN r ELSE TryPatternsLoosestFirst(s, p + 1)

\* for pattern in patterns, from patterns[p - 1] on
RECURSIVE TryPatterns(_, _)
TryPatterns(s, p) ==
    IF p > NumPatterns
    THEN None
    ELSE LET r == FirstAccepted(FindAll(p, s), 1)
         IN  IF r # None THEN r ELSE TryPatterns(s, p + 1)

extract_complete_text(s) ==
    IF s = None \/ s = <<>> THEN None ELSE TryPatterns(s, 1)

(***************************************************************************)
(* clean_extracted_text                                                    *)
(***************************************************************************)

\* len(cleaned) <= 2 and cleaned.isalpha()
MaxArtifactLen == 2
\* len(cleaned) < 3
MinCleanLen == 3

\* s[pos - 1:], pos counted from 1
Suffix(s, pos) == SubSeq(s, pos, Len(s))

\* re.sub(r'^x[0-9a-f]+[+#]', '', s): the hex digits are greedy and cannot give
\* one back to [+#], which is no hex digit.
StripHexMark(s) ==
    LET e == RunEnd(s, 2, "hex")
    IN  IF /\ Len(s) >= 1 /\ s[1] = "x"
           /\ e - 2 >= 1
           /\ e <= Len(s) /\ IsMark(s[e])
        THEN Suffix(s, e + 1)
        ELSE s

\* A faulty second prefix rule, which C8 must tell from the code's: the x is
\* optional, so that leading digits go too.
StripHexOptionalX(s) ==
    LET from == IF Len(s) >= 1 /\ s[1] = "x" THEN 2 ELSE 1
        e == RunEnd(s, from, "hex")
    IN  IF e - from >= 1 THEN Suffix(s, e) ELSE s

\* re.sub(r'^x[0-9a-f]+', '', s)
StripHex(s) ==
    LET e == RunEnd(s, 2, "hex")
    IN  IF Len(s) >= 1 /\ s[1] = "x" /\ e - 2 >= 1
        THEN Suffix(s, e)
        ELSE s

\* re.sub(lit, '', s) and, with tail, re.sub(lit + "[^']*", '', s), scanning from
\* pos: every leftmost match that does not overlap an earlier one is removed,
\* in one pass.
RECURSIVE RemoveFrom(_, _, _, _)
RemoveFrom(s, pos, lit, tail) ==
    IF pos > Len(s)
    THEN <<>>
    ELSE IF StartsWithAt(s, pos, lit)
         THEN LET after == pos + Len(lit)
              IN  RemoveFrom(s, IF tail THEN RunEnd(s, after, "notquote") ELSE after,
                             lit, tail)
         ELSE <<s[pos]>> \o RemoveFrom(s, pos + 1, lit, tail)

Remove(s, lit, tail) == RemoveFrom(s, 1, lit, tail)

\* "Remove binary data patterns": the four re.sub calls, in order
RemoveBinary(s) ==
    Remove(Remove(Remove(Remove(s, S_classname, TRUE), S_dashdot, TRUE),
                  S_streamtyped, FALSE),
           S_utableData, FALSE)

\* "Remove binary prefixes": the two re.sub calls, in order
RemovePrefixes(s) == StripHex(StripHexMark(s))

\* A faulty cleaner, which C6 must tell from the code's: it does not look at the
\* length again after the last strip.
clean_extracted_text_unchecked(s) ==
    IF s = None \/ s = <<>>
    THEN None
    ELSE LET unprefixed == RemovePrefixes(s)
         IN  IF Len(unprefixed) <= MaxArtifactLen /\ IsAlphaStr(unprefixed)
             THEN None
             ELSE Strip(RemoveBinary(unprefixed))

clean_extracted_text(s) ==
    IF s = None \/ s = <<>>
    THEN None
    ELSE LET unprefixed == RemovePrefixes(s)
         IN  IF Len(unprefixed) <= MaxArtifactLen /\ IsAlphaStr(unprefixed)
             THEN None
             ELSE LET stripped == Strip(RemoveBinary(unprefixed))
                  IN  IF Len(stripped) < MinCleanLen THEN None ELSE stripped

(***************************************************************************)
(* export_messages                                                         *)
(***************************************************************************)

\* A row of the query is [rowid, text, date, attributed_body]: message.text is a
\* str or None; message.attributedBody is None (kind "none"), a str (kind "str")
\* or bytes (kind "bytes"), val holding its characters or its bytes. The columns
\* is_from_me, cache_has_attachments, service and readable_date are copied to the
\* clean message object as they are and are left out.
NoBody == [kind |-> "none", val |-> <<>>]

\* The bytes of the model that repr() writes as \xhh, with their two hex digits.
HexBytes == {"0x01", "0x0b", "0x0c", "0x84", "0x94"}
HexDigits(b) ==
    CASE b = "0x01" -> <<"0", "1">>
      [] b = "0x0b" -> <<"0", "b">>
      [] b = "0x0c" -> <<"0", "c">>
      [] b = "0x84" -> <<"8", "4">>
      [] b = "0x94" -> <<"9", "4">>

\* How repr() writes one byte between the quotes q.
ReprByte(b, q) ==
    CASE b = "\\" -> <<"\\", "\\">>
      [] b = q -> <<"\\", q>>
      [] b = "\t" -> <<"\\", "t">>
      [] b = "\n" -> <<"\\", "n">>
      [] b = "\r" -> <<"\\", "r">>
      [] b \in HexBytes -> <<"\\", "x">> \o HexDigits(b)
      [] OTHER -> <<b>>

RECURSIVE ReprBytes(_, _)
ReprBytes(bs, q) ==
    IF bs = <<>> THEN <<>> ELSE ReprByte(Head(bs), q) \o ReprBytes(Tail(bs), q)

\* str(attributed_body): a str is itself; bytes are written as their literal,
\* b'...', in double quotes when they hold ' and no ".
PyStr(body) ==
    IF body.kind = "bytes"
    THEN LET q == IF "'" \in Range(body.val) /\ "\"" \notin Range(body.val)
                  THEN "\"" ELSE "'"
         IN  <<"b", q>> \o ReprBytes(body.val, q) \o <<q>>
    ELSE body.val

\* text and text.strip()
NonBlank(t) == t # None /\ t # <<>> /\ Strip(t) # <<>>

\* "Try to get complete text": complete_text after the if/else on the text field
complete_text(msg) ==
    IF NonBlank(msg.text)
    THEN msg.text
    ELSE IF msg.attributed_body.kind # "none" /\ msg.attributed_body.val # <<>>
         THEN extract_complete_text(PyStr(msg.attributed_body))
         ELSE None

\* A faulty orchestrator, which C10 must tell from the code's: when the cleaner
\* rejects the plain text it turns to the archive.
cleaned_text_fallback(msg) ==
    LET complete == complete_text(msg)
        first == IF complete # None /\ complete # <<>>
                 THEN clean_extracted_text(complete)
                 ELSE None
        body == IF msg.attributed_body.kind # "none" /\ msg.attributed_body.val # <<>>
                THEN extract_complete_text(PyStr(msg.attributed_body))
                ELSE None
    IN  IF first = None /\ body # None /\ body # <<>>
        THEN clean_extracted_text(body)
        ELSE first

\* if complete_text: cleaned_text = clean_extracted_text(complete_text), else
\* no cleaned text
cleaned_text(msg) ==
    LET complete == complete_text(msg)
    IN  IF complete # None /\ complete # <<>>
        THEN clean_extracted_text(complete)
        ELSE None

\* clean_msg
CleanMsg(msg, txt) == [rowid |-> msg.rowid, date |-> msg.date, text |-> txt]

\* A faulty insertion, which C7 must tell from the code's: an element goes before
\* the elements of its own date, so the sort is not stable.
InsertBeforeEqualDate(sorted, m) ==
    LET before == Cardinality({k \in 1..Len(sorted) : sorted[k].date < m.date})
    IN  SubSeq(sorted, 1, before) \o <<m>> \o SubSeq(sorted, before + 1, Len(sorted))

\* list.sort(key=lambda x: x['date']): the sort is stable, so sorting is inserting
\* each element, in order, after the elements whose key is not greater than its own.
InsertByDate(sorted, m) ==
    LET before == Cardinality({k \in 1..Len(sorted) : sorted[k].date <= m.date})
    IN  SubSeq(sorted, 1, before) \o <<m>> \o SubSeq(sorted, before + 1, Len(sorted))

RECURSIVE SortByDateFrom(_, _, _)
SortByDateFrom(list, k, sorted) ==
    IF k > Len(list)
    THEN sorted
    ELSE SortByDateFrom(list, k + 1, InsertByDate(sorted, list[k]))

SortByDate(list) == SortByDateFrom(list, 1, <<>>)

(***************************************************************************)
(* The inputs of the model                                                 *)
(***************************************************************************)

\* The longest list of rows the query returns.
MaxMessages == 2
\* The dates of the rows are 1..MaxDate.
MaxDate == 2
\* The most fragments an argument of extract_complete_text is made of.
MaxBodyFragments == 3
\* The most fragments an argument of clean_extracted_text is made of.
MaxTextFragments == 3

\* "ok"
T_ok == <<"o", "k">>
\* "Hey, are we still on for lunch?"
T_lunch ==
    <<"H", "e", "y", ",", " ", "a", "r", "e", " ", "w", "e", " ", "s", "t", "i", "l", "l",
      " ", "o", "n", " ", "f", "o", "r", " ", "l", "u", "n", "c", "h", "?">>
\* "xbox night?"
T_xbox == <<"x", "b", "o", "x", " ", "n", "i", "g", "h", "t", "?">>
\* "NSString123Hello there, how are you doing today?xyz"
B_marker_digits ==
    <<"N", "S", "S", "t", "r", "i", "n", "g", "1", "2", "3", "H", "e", "l", "l", "o", " ",
      "t", "h", "e", "r", "e", ",", " ", "h", "o", "w", " ", "a", "r", "e", " ", "y", "o",
      "u", " ", "d", "o", "i", "n", "g", " ", "t", "o", "d", "a", "y", "?", "x", "y", "z">>
\* "123Hello there, how are you doing today?xyz"
T_digits_hello ==
    <<"1", "2", "3", "H", "e", "l", "l", "o", " ", "t", "h", "e", "r", "e", ",", " ", "h",
      "o", "w", " ", "a", "r", "e", " ", "y", "o", "u", " ", "d", "o", "i", "n", "g", " ",
      "t", "o", "d", "a", "y", "?", "x", "y", "z">>
\* "Hello there, how are you doing today?xyz"
T_hello ==
    <<"H", "e", "l", "l", "o", " ", "t", "h", "e", "r", "e", ",", " ", "h", "o", "w", " ",
      "a", "r", "e", " ", "y", "o", "u", " ", "d", "o", "i", "n", "g", " ", "t", "o", "d",
      "a", "y", "?", "x", "y", "z">>
\* b'NSString\x01\x94\x84\x01+\x0bHello world'
B_typedstream ==
    S_NSString \o <<"0x01", "0x94", "0x84", "0x01", "+", "0x0b">>
    \o <<"H", "e", "l", "l", "o", " ", "w", "o", "r", "l", "d">>
\* b'\x0cNSDictionary'
B_dictionary ==
    <<"0x0c", "N", "S", "D", "i", "c", "t", "i", "o", "n", "a", "r", "y">>

\* message.text of the rows
TextSamples == {None, <<>>, <<" ">>, T_ok, T_xbox, T_lunch}

\* message.attributedBody of the rows
BodySamples ==
    {NoBody,
     [kind |-> "str", val |-> B_marker_digits],
     [kind |-> "bytes", val |-> B_typedstream],
     [kind |-> "bytes", val |-> B_dictionary]}

\* The concatenations of at most n strings of F.
RECURSIVE Concats(_, _)
Concats(F, n) ==
    IF n = 0
    THEN {<<>>}
    ELSE LET shorter == Concats(F, n - 1)
         IN  shorter \cup {a \o f : a \in shorter, f \in F}

\* What the arguments of extract_complete_text are made of.
BodyFragments ==
    {S_NSString, S_NS, S_null, S_dollar, S_streamtyped, <<" ">>, <<"\n">>, <<"\\">>,
     <<"h", "i">>, <<"1", "2", "3">>, <<"x", "0", "b">>, <<" ", " ", " ", " ", " ">>,
     <<"H", "e", "l", "l", "o", " ", "t", "h", "e", "r", "e">>}

\* What the arguments of clean_extracted_text are made of.
TextFragments ==
    {<<"x", "1", "f">>, <<"x">>, <<"a">>, <<"+">>, <<" ">>, <<"'">>, <<"?">>, T_ok,
     <<"H", "i", "!">>, S_streamtyped, <<"s", "t", "r", "e", "a", "m">>, <<"t", "y", "p", "e", "d">>,
     S_utableData, S_dashdot, S_classname}

(***************************************************************************)
(* export_messages as a state machine: one step for each row of the loop,  *)
(* then the sort.                                                          *)
(***************************************************************************)

Rows == [text : TextSamples, attributed_body : BodySamples, date : 1..MaxDate]

\* ORDER BY message.date DESC
DateDescending(rows) ==
    \A k \in 1..(Len(rows) - 1) : rows[k].date >= rows[k + 1].date

\* split_conversation_file is not running.
NoSplit ==
    /\ lines = <<>>
    /\ max_tokens_per_chunk = 0
    /\ line_idx = 0
    /\ message_lines = <<>>
    /\ header_lines = <<>>
    /\ msg_idx = 0
    /\ chunks = <<>>
    /\ current_chunk = <<>>
    /\ current_tokens = 0

Idle ==
    /\ attributed_body_str = None
    /\ extracted = Unset
    /\ text = None
    /\ cleaned = Unset
    /\ recleaned = Unset

Init ==
    /\ \E n \in 0..MaxMessages : \E rows \in [1..n -> Rows] :
          /\ DateDescending(rows)
          /\ messages = [k \in 1..n |->
                            [rowid |-> k, text |-> rows[k].text, date |-> rows[k].date,
                             attributed_body |-> rows[k].attributed_body]]
    /\ idx = 0
    /\ clean_messages = <<>>
    /\ pc = "export"
    /\ Idle
    /\ NoSplit

\* if not messages: return False
NoMessages ==
    /\ pc = "export"
    /\ messages = <<>>
    /\ pc' = "no_messages"
    /\ UNCHANGED <<messages, idx, clean_messages, attributed_body_str, extracted,
                   text, cleaned, recleaned>>
    /\ UNCHANGED batcher_vars

\* cleaned_text of a row with each text and each archive of the model, worked
\* out once: it reads neither the rowid nor the date.
cleaned_texts ==
    [t \in TextSamples, b \in BodySamples |->
        cleaned_text([text |-> t, attributed_body |-> b])]

\* One pass of "for msg in messages".
ProcessMessage ==
    /\ pc = "export"
    /\ idx < Len(messages)
    /\ LET msg == messages[idx + 1]
           txt == cleaned_texts[msg.text, msg.attributed_body]
       IN  clean_messages' =
               IF txt # None /\ txt # <<>>
               THEN Append(clean_messages, CleanMsg(msg, txt))
               ELSE clean_messages
    /\ idx' = idx + 1
    /\ UNCHANGED <<messages, pc, attributed_body_str, extracted, text, cleaned, recleaned>>
    /\ UNCHANGED batcher_vars

\* After the loop: clean_messages.sort(...), and the list goes to the formatters.
SortMessages ==
    /\ pc = "export"
    /\ messages # <<>>
    /\ idx = Len(messages)
    /\ clean_messages' = SortByDate(clean_messages)
    /\ pc' = "done"
    /\ UNCHANGED <<messages, idx, attributed_body_str, extracted, text, cleaned, recleaned>>
    /\ UNCHANGED batcher_vars

Next == NoMessages \/ ProcessMessage \/ SortMessages

Spec == Init /\ [][Next]_vars

(***************************************************************************)
(* extract_complete_text called on its own                                 *)
(***************************************************************************)

NoExport ==
    /\ messages = <<>>
    /\ idx = 0
    /\ clean_messages = <<>>

InitExtract ==
    /\ attributed_body_str \in Concats(BodyFragments, MaxBodyFragments)
    /\ extracted = Unset
    /\ pc = "extract"
    /\ NoExport
    /\ text = None
    /\ cleaned = Unset
    /\ recleaned = Unset
    /\ NoSplit

ExtractCall ==
    /\ pc = "extract"
    /\ extracted' = extract_complete_text(attributed_body_str)
    /\ pc' = "extracted"
    /\ UNCHANGED <<messages, idx, clean_messages, attributed_body_str, text, cleaned,
                   recleaned>>
    /\ UNCHANGED batcher_vars

NextExtract == ExtractCall

SpecExtract == InitExtract /\ [][NextExtract]_vars

(***************************************************************************)
(* clean_extracted_text called on its own, then on what it returned        *)
(***************************************************************************)

InitClean ==
    /\ text \in Concats(TextFragments, MaxTextFragments)
    /\ cleaned = Unset
    /\ recleaned = Unset
    /\ pc = "clean"
    /\ NoExport
    /\ attributed_body_str = None
    /\ extracted = Unset
    /\ NoSplit

CleanCall ==
    /\ pc = "clean"
    /\ cleaned' = clean_extracted_text(text)
    /\ pc' = "cleaned"
    /\ UNCHANGED <<messages, idx, clean_messages, attributed_body_str, extracted, text,
                   recleaned>>
    /\ UNCHANGED batcher_vars

CleanAgain ==
    /\ pc = "cleaned"
    /\ recleaned' = clean_extracted_text(cleaned)
    /\ pc' = "recleaned"
    /\ UNCHANGED <<messages, idx, clean_messages, attributed_body_str, extracted, text,
                   cleaned>>
    /\ UNCHANGED batcher_vars

NextClean == CleanCall \/ CleanAgain

SpecClean == InitClean /\ [][NextClean]_vars

(***************************************************************************)
(* split_conversation_file: line classification, then greedy batching of   *)
(* the message lines into chunks. The model follows the function up to the *)
(* list of chunks; the files are written from that list, one per chunk.    *)
(***************************************************************************)

CharsPerToken == 4

\* Rough token estimation (1 token is about 4 characters)
estimate_tokens(t) == Len(t) \div CharsPerToken

\* The default of the parameter: no limit on the messages of a chunk.
max_messages_per_chunk == None

\* line and line[0].isdigit() and '[' in line and ']' in line
IsMessageLine(line) ==
    /\ line # <<>>
    /\ line[1] \in DigitChars
    /\ Contains(line, <<"[">>)
    /\ Contains(line, <<"]">>)

\* len([l for l in chunk if l.strip() and l[0].isdigit()])
DigitLines(chunk) ==
    Cardinality({k \in 1..Len(chunk) :
                    Strip(chunk[k]) # <<>> /\ chunk[k][1] \in DigitChars})

\* header_lines[1:]
Rest(list) == SubSeq(list, 2, Len(list))

MaxLines == 4
MaxTokensPerChunk == 3

\* Lines of a conversation file, as f.readlines() returns them.
L_blank == <<"\n">>
L_title == <<"T", "i", "t", "l", "e", "\n">>
L_year == <<"2", "0", "2", "4", " ", "l", "o", "g", "\n">>
\* "1[a]": 4 characters, 1 token
L_short == <<"1", "[", "a", "]", "\n">>
\* " 2 [b] hi!": 9 characters once stripped, 2 tokens
L_medium == <<" ", "2", " ", "[", "b", "]", " ", "h", "i", "!", "\n">>
\* "3 [c] hello there you": 21 characters, 5 tokens
L_long ==
    <<"3", " ", "[", "c", "]", " ", "h", "e", "l", "l", "o", " ",
      "t", "h", "e", "r", "e", " ", "y", "o", "u", "\n">>

LineSamples == {L_blank, L_title, L_year, L_short, L_medium, L_long}

InitSplit ==
    /\ \E n \in 0..MaxLines : lines \in [1..n -> LineSamples]
    /\ max_tokens_per_chunk \in 1..MaxTokensPerChunk
    /\ line_idx = 0
    /\ message_lines = <<>>
    /\ header_lines = <<>>
    /\ msg_idx = 0
    /\ chunks = <<>>
    /\ current_chunk = <<>>
    /\ current_tokens = 0
    /\ pc = "classify"
    /\ NoExport
    /\ Idle

\* One pass of "for i, line in enumerate(lines)".
ClassifyLine ==
    /\ pc = "classify"
    /\ line_idx < Len(lines)
    /\ LET line == Strip(lines[line_idx + 1])
       IN  IF IsMessageLine(line)
           THEN /\ message_lines' = Append(message_lines, <<line_idx, line>>)
                /\ UNCHANGED header_lines
           ELSE /\ header_lines' = Append(header_lines, line)
                /\ UNCHANGED message_lines
    /\ line_idx' = line_idx + 1
    /\ UNCHANGED <<lines, max_tokens_per_chunk, msg_idx, chunks, current_chunk,
                   current_tokens, pc>>
    /\ UNCHANGED exporter_vars

\* After the first loop: the first chunk opens with the header, if any.
StartChunks ==
    /\ pc = "classify"
    /\ line_idx = Len(lines)
    /\ chunks' = <<>>
    /\ current_chunk' = IF header_lines # <<>> THEN header_lines \o << <<>> >> ELSE <<>>
    /\ current_tokens' = 0
    /\ pc' = "batch"
    /\ UNCHANGED <<lines, max_tokens_per_chunk, line_idx, message_lines, header_lines,
                   msg_idx>>
    /\ UNCHANGED exporter_vars

\* One pass of "for line_num, message_line in message_lines".
PlaceMessage ==
    /\ pc = "batch"
    /\ msg_idx < Len(message_lines)
    /\ LET message_line == message_lines[msg_idx + 1][2]
           message_tokens == estimate_tokens(message_line)
           full == \/ /\ current_tokens + message_tokens > max_tokens_per_chunk
                      /\ current_chunk # <<>>
                   \/ /\ max_messages_per_chunk # None
                      /\ max_messages_per_chunk # 0
                      /\ DigitLines(current_chunk) >= max_messages_per_chunk
           restarted == IF header_lines # <<>>
                        THEN Rest(header_lines) \o << <<>> >>
                        ELSE <<>>
       IN  /\ chunks' = IF full THEN Append(chunks, current_chunk) ELSE chunks
           /\ current_chunk' = (IF full THEN restarted ELSE current_chunk)
                                   \o <<message_line, <<>> >>
           /\ current_tokens' = (IF full THEN 0 ELSE current_tokens) + message_tokens
    /\ msg_idx' = msg_idx + 1
    /\ UNCHANGED <<lines, max_tokens_per_chunk, line_idx, message_lines, header_lines, pc>>
    /\ UNCHANGED exporter_vars

\* After the second loop: if current_chunk: chunks.append(current_chunk)
FinishChunks ==
    /\ pc = "batch"
    /\ msg_idx = Len(message_lines)
    /\ chunks' = IF current_chunk # <<>> THEN Append(chunks, current_chunk) ELSE chunks
    /\ pc' = "chunked"
    /\ UNCHANGED <<lines, max_tokens_per_chunk, line_idx, message_lines, header_lines,
                   msg_idx, current_chunk, current_tokens>>
    /\ UNCHANGED exporter_vars

NextSplit == ClassifyLine \/ StartChunks \/ PlaceMessage \/ FinishChunks

SpecSplit == InitSplit /\ [][NextSplit]_vars

(***************************************************************************)
(* Properties                                                              *)
(***************************************************************************)

\* The clean message objects made of row k so far.
RecordsOf(k) == {j \in 1..Len(clean_messages) : clean_messages[j].rowid = messages[k].rowid}

\* a is a prefix of b
IsPrefix(a, b) == Len(a) <= Len(b) /\ SubSeq(b, 1, Len(a)) = a

\* s begins with one of the structural-archive markers
HasMarkerPrefix(s) ==
    \/ StartsWith(s, S_NS)
    \/ StartsWith(s, S_class)
    \/ StartsWith(s, S_dollar)
    \/ StartsWith(s, S_null)

\* C1: every row whose plain text is not blank once trimmed, whatever its archive
\* blob, gives a clean message whose text is the trimmed plain text.
C1_PlainTextKept ==
    \A k \in 1..idx :
        NonBlank(messages[k].text) =>
            \E j \in RecordsOf(k) : clean_messages[j].text = Strip(messages[k].text)

\* C2: cleaning is idempotent: cleaning what clean_extracted_text returned gives
\* the same again, nothing for nothing.
C2_CleanIdempotent == pc = "recleaned" => recleaned = cleaned

\* C3: no text of a clean message, whether it came from the plain text or from
\* the archive matcher, begins with 'NS', 'class', '$' or 'null'.
C3_NoMarkerPrefix ==
    \A j \in 1..Len(clean_messages) : ~HasMarkerPrefix(clean_messages[j].text)

\* C4: extract_complete_text never returns a string of length 7 or less: what it
\* returns is nothing or longer than 7 characters.
C4_ReturnedLongerThan7 ==
    pc = "extracted" => extracted = None \/ Len(extracted) > MaxNoiseLen

\* C5: extract_complete_text never returns a string that begins with 'NS',
\* 'class', '$' or 'null'.
C5_NoStructuralPrefix ==
    pc = "extracted" /\ extracted # None => ~HasMarkerPrefix(extracted)

\* C6: clean_extracted_text returns nothing, or a string of length >= 3 that
\* neither begins nor ends with whitespace.
C6_CleanedLength ==
    pc \in {"cleaned", "recleaned"} =>
        \/ cleaned = None
        \/ /\ Len(cleaned) >= MinCleanLen
           /\ ~IsSpace(cleaned[1])
           /\ ~IsSpace(cleaned[Len(cleaned)])

\* C6 happens: an argument with whitespace around it was cleaned down to exactly
\* three characters.
C6_Witness ==
    /\ pc = "cleaned"
    /\ cleaned # None
    /\ Len(cleaned) = MinCleanLen
    /\ IsSpace(text[1]) /\ IsSpace(text[Len(text)])

\* How often m occurs in list.
Count(list, m) == Cardinality({j \in 1..Len(list) : list[j] = m})

\* after is a permutation of before in ascending order of date, and elements of
\* equal date are in the order they have in before.
IsStableSort(before, after) ==
    /\ Len(after) = Len(before)
    /\ \A k \in 1..Len(before) : Count(after, before[k]) = Count(before, before[k])
    /\ \A i, j \in 1..Len(after) : i < j => after[i].date <= after[j].date
    /\ \A k, l \in 1..Len(before) :
          k < l /\ before[k].date = before[l].date =>
              \E i, j \in 1..Len(after) :
                  i < j /\ after[i] = before[k] /\ after[j] = before[l]

\* C7: the list handed to the formatters is a permutation of the recovered
\* records in ascending order of timestamp, and records of equal timestamp keep
\* the order in which they were retrieved.
C7_SortStable ==
    [][pc = "export" /\ pc' = "done" => IsStableSort(clean_messages, clean_messages')]_vars

\* C7 happens: the sort has run on two records of equal date, and they are in
\* the order of retrieval.
C7_Witness ==
    /\ pc = "done"
    /\ Len(clean_messages) = 2
    /\ clean_messages[1].date = clean_messages[2].date
    /\ clean_messages[1].rowid < clean_messages[2].rowid

\* The row of C8: no plain text, and an archive whose textual form is
\* "NSString123Hello there, how are you doing today?xyz".
IsMarkerDigitsRow(msg) ==
    /\ ~NonBlank(msg.text)
    /\ msg.attributed_body.kind # "none"
    /\ PyStr(msg.attributed_body) = B_marker_digits

\* C8 as stated: the text recovered from such a row is the message text "Hello
\* there, how are you doing today?xyz" or a prefix of it, of length >= 3, the
\* 'NSString' marker and the leading digits removed.
C8_DigitsRemoved ==
    \A k \in 1..idx :
        IsMarkerDigitsRow(messages[k]) =>
            \E j \in RecordsOf(k) :
                /\ IsPrefix(clean_messages[j].text, T_hello)
                /\ Len(clean_messages[j].text) >= MinCleanLen

\* C8 as amended: the text recovered from such a row is "123Hello there, how are
\* you doing today?xyz": the 'NSString' marker is removed, the digits are kept.
C8_DigitsKept ==
    \A k \in 1..idx :
        IsMarkerDigitsRow(messages[k]) =>
            /\ Cardinality(RecordsOf(k)) = 1
            /\ \A j \in RecordsOf(k) : clean_messages[j].text = T_digits_hello

\* C8 happens: a row with an empty plain text and that archive was processed.
C8_Witness ==
    \E k \in 1..idx :
        /\ messages[k].text = <<>>
        /\ IsMarkerDigitsRow(messages[k])
        /\ RecordsOf(k) # {}

\* All matches of pattern (a) in order of appearance, then those of (b), then
\* those of (c).
Candidates(s) == FindAll(1, s) \o FindAll(2, s) \o FindAll(3, s)

\* C9: extract_complete_text returns the first candidate, in that order, that
\* passes the rejection filter (stripped of surrounding whitespace), and nothing
\* only if every candidate is rejected.
C9_FirstAcceptedCandidate ==
    pc = "extracted" =>
        LET c == Candidates(attributed_body_str)
            passing == {k \in 1..Len(c) : Accepted(c[k])}
        IN  IF passing = {}
            THEN extracted = None
            ELSE LET first == CHOOSE k \in passing : \A l \in passing : k <= l
                 IN  extracted = Strip(c[first])

\* C9 happens: a match of pattern (b) was returned after a match of pattern (a)
\* was rejected.
C9_Witness ==
    /\ pc = "extracted"
    /\ extracted # None
    /\ FindAll(1, attributed_body_str) # <<>>
    /\ \A k \in 1..Len(FindAll(1, attributed_body_str)) :
          ~Accepted(FindAll(1, attributed_body_str)[k])
    /\ \E k \in 1..Len(FindAll(2, attributed_body_str)) :
          Accepted(FindAll(2, attributed_body_str)[k])

\* The candidate of a row, as C10 states it: the plain text if it is not blank
\* once trimmed, otherwise the matcher's result on the archive if there is one.
CandidateOf(msg) ==
    IF NonBlank(msg.text)
    THEN msg.text
    ELSE IF msg.attributed_body.kind # "none"
         THEN extract_complete_text(PyStr(msg.attributed_body))
         ELSE None

\* What C10 expects of a row with each text and each archive of the model: the
\* candidate, cleaned.
ExpectedTexts ==
    [t \in TextSamples, b \in BodySamples |->
        clean_extracted_text(CandidateOf([text |-> t, attributed_body |-> b]))]

\* C10: the output holds exactly one clean message, with a non-empty text, for
\* each processed row whose candidate is cleaned to a non-empty string, and none
\* for any other row; what happens to a row depends on its own fields only.
C10_OneRecordPerRecoveredRow ==
    /\ \A k \in 1..idx :
          LET txt == ExpectedTexts[messages[k].text, messages[k].attributed_body]
          IN  IF txt # None /\ txt # <<>>
              THEN /\ Cardinality(RecordsOf(k)) = 1
                   /\ \A j \in RecordsOf(k) :
                         clean_messages[j] = CleanMsg(messages[k], txt)
              ELSE RecordsOf(k) = {}
    /\ \A j \in 1..Len(clean_messages) :
          /\ clean_messages[j].text # <<>>
          /\ \E k \in 1..idx : j \in RecordsOf(k)

\* C10 happens: a row whose plain text the cleaner rejects was dropped though
\* it has an archive the matcher finds text in, and another row was kept.
C10_Witness ==
    /\ pc = "done"
    /\ Len(clean_messages) = 1
    /\ \E k \in 1..idx :
          /\ messages[k].text = T_ok
          /\ messages[k].attributed_body.kind # "none"
          /\ ExpectedTexts[<<>>, messages[k].attributed_body] # None
          /\ RecordsOf(k) = {}

\* The message lines a chunk holds.
MessageLinesOf(chunk) == SelectSeq(chunk, IsMessageLine)

RECURSIVE TokenSum(_)
\* The sum of estimate_tokens over a list of lines.
TokenSum(list) ==
    IF list = <<>> THEN 0 ELSE estimate_tokens(Head(list)) + TokenSum(Tail(list))

\* The token estimates of a chunk's message lines fit max_tokens_per_chunk,
\* unless the chunk holds exactly one message line.
TokensBounded(chunk) ==
    \/ TokenSum(MessageLinesOf(chunk)) <= max_tokens_per_chunk
    \/ Len(MessageLinesOf(chunk)) = 1

\* C11: with max_messages_per_chunk unset, every chunk split_conversation_file
\* produces holds at least one message line, and the token estimates of its
\* message lines sum to at most max_tokens_per_chunk unless it holds exactly
\* one message line.
C11_ChunksHoldMessages ==
    \A c \in 1..Len(chunks) :
        /\ Len(MessageLinesOf(chunks[c])) >= 1
        /\ TokensBounded(chunks[c])

\* The token half of C11 on its own: it holds of every chunk, closed or open.
ChunkTokensBounded ==
    /\ \A c \in 1..Len(chunks) : TokensBounded(chunks[c])
    /\ pc = "batch" => TokensBounded(current_chunk)

\* Where the closed chunks without a message line come from: a header, and
\* either no message line at all or one whose estimate alone is over the limit.
MessagelessChunksHaveCause ==
    \A c \in 1..Len(chunks) :
        Len(MessageLinesOf(chunks[c])) = 0 =>
            /\ header_lines # <<>>
            /\ \/ message_lines = <<>>
               \/ \E m \in 1..Len(message_lines) :
                      estimate_tokens(message_lines[m][2]) > max_tokens_per_chunk

====
